---- MODULE Spec2Model ----
(***************************************************************************)
(* The ingestion gating pipeline of the RodeoAI GPU API:                   *)
(* ingest_historical_data (src/app.py) with the extractors of              *)
(* src/data_processor.py and the push client of src/lovable_client.py.     *)
(* The deduplication engine, the triage engine and the review queue are    *)
(* imported from the module `deduplication`, which is modelled from its    *)
(* documented contract.                                                    *)
(*                                                                         *)
(* The handler is a coroutine on a single event loop: the code between two *)
(* awaits is one atomic step.  The first await that follows an access to   *)
(* shared state is the first push_result call, so a request is one step    *)
(* (Ingest) unless it pushes result records, and then one further step per *)
(* awaited push (PushReturns).                                             *)
(*                                                                         *)
(* Spec is the single-file endpoint of a service with no secret            *)
(* configured.  ApiSpec adds the API key, ingest_batch and the             *)
(* review-queue listing.  ParserSpec applies process_file to one file.     *)
(***************************************************************************)
EXTENDS Integers, Sequences, FiniteSets, TLC

VARIABLES
    seen_files,   \* DeduplicationEngine: registry of content fingerprints
    seen_data,    \* DeduplicationEngine: registry of data fingerprints
    queue,        \* ReviewQueue.queue
    inflight,     \* the requests suspended in an awaited push_result
    resp,         \* the request that has just completed: its response and trace
    served,       \* the number of requests received so far
    past,         \* what earlier requests submitted and extracted (history)
    config,       \* GPU_API_KEY, the configured secret ("" when none is set)
    batch,        \* the ingest_batch call in progress, or its reply
    listing,      \* the reply of GET /review-queue that is being sent
    parse         \* a file handed to DataProcessor.process_file, and the outcome

vars == <<seen_files, seen_data, queue, inflight, resp, served, past,
          config, batch, listing, parse>>

----------------------------------------------------------------------------
(* Bounds *)

MaxRequests == 2   \* requests the service receives
MaxRows == 2       \* data rows of a table handed to process_file

----------------------------------------------------------------------------
(* Uploads *)

ResultCols == {"event_name", "rider_name", "result", "score"}
PredictionCols == {"event_name", "rider_name", "prediction", "confidence"}

\* An upload: filename (stem, extension), declared media type, and the bytes:
\* the column names of the table they hold, the rows (data names the cell
\* values, rows counts them) and variant, which tells apart byte sequences
\* that hold the same table: variant 2 holds the rows in reverse order.
Upload(stem, ext, ftype, cols, data, rows, variant) ==
    [filename |-> [stem |-> stem, ext |-> ext], ftype |-> ftype,
     content |-> [cols |-> cols, data |-> data, rows |-> rows, variant |-> variant]]

\* a.csv and b.csv hold the same two-row results table, b.csv bottom up;
\* p.csv holds a predictions table; no extractor claims x.bin.
Uploads ==
    {Upload("a", ".csv", "text/csv", ResultCols, 1, 2, 1),
     Upload("b", ".csv", "", ResultCols, 1, 2, 2),
     Upload("p", ".csv", "text/csv", PredictionCols, 2, 2, 1),
     Upload("x", ".bin", "application/octet-stream", {}, 3, 1, 1)}

----------------------------------------------------------------------------
(* Parser Registry: src/data_processor.py *)

\* `word in file_type.lower()`: the words of the dispatch that occur in a
\* declared media type.
TypeWords(ftype) ==
    CASE ftype = "text/csv" -> {"csv", "text"}
      [] ftype = "text/plain" -> {"text"}
      [] ftype = "application/pdf" -> {"pdf"}
      [] ftype = "image/png" -> {"png"}
      [] ftype = "image/jpeg" -> {"jpeg"}
      [] ftype = "application/vnd.ms-excel" -> {"excel"}
      [] OTHER -> {}

\* `ind in col.lower()`: the indicator words that occur in a column name.
ColWords(col) ==
    CASE col = "event_name" -> {"event"}
      [] col = "result" -> {"result"}
      [] col = "score" -> {"score"}
      [] col = "prediction" -> {"prediction"}
      [] col = "confidence" -> {"confidence"}
      [] col = "date" -> {"date"}
      [] col = "location" -> {"location"}
      [] col = "average_score" -> {"score"}
      [] OTHER -> {}

_is_results_csv(cols) ==
    \E col \in cols :
        ColWords(col) \cap {"result", "score", "placement", "winner", "actual"} # {}

_is_predictions_csv(cols) ==
    \E col \in cols :
        ColWords(col) \cap {"prediction", "confidence", "predicted", "odds"} # {}

_is_events_csv(cols) ==
    \E col \in cols :
        ColWords(col) \cap {"event", "competition", "rodeo", "date", "location"} # {}

\* The keys of the records the extractors build, and the keyword parameters
\* of the push client's methods.
ResultRecordKeys == {"event_name", "rider_name", "actual_value", "score", "placement"}
PredictionRecordKeys == {"event", "rider", "prediction"}

PushResultParams == {"event_name", "rider_name", "actual_value", "score", "placement"}
PushResultRequired == {"event_name", "rider_name", "actual_value"}
PushPredictionParams ==
    {"event_name", "event_location", "event_date", "event_type", "rider_name",
     "rider_rank", "rider_win_rate", "prediction_type", "predicted_value",
     "confidence", "odds", "model_version", "analysis"}
PushPredictionRequired ==
    {"event_name", "event_location", "event_date", "event_type", "rider_name"}

\* for _, row in df.iterrows(): the table's row that is read i-th.
RowAt(c, i) == IF c.variant = 2 THEN c.rows + 1 - i ELSE i

\* One record per data row; data and row name the values of its fields.
Records(keys, c) ==
    [i \in 1..c.rows |-> [keys |-> keys, data |-> c.data, row |-> RowAt(c, i)]]

Extracted(keys, events, riders, predictions, results) ==
    [ok |-> TRUE, keys |-> keys, events |-> events, riders |-> riders,
     predictions |-> predictions, results |-> results]

\* Mutant: the results parser also emits one prediction record per row.
_parse_results_csvWithPredictions(c) ==
    Extracted({"events", "riders", "predictions", "results", "source"},
              Records({"name", "location", "event_date", "event_type"}, c),
              Records({"name", "rank", "win_rate"}, c),
              Records(PredictionRecordKeys, c),
              Records(ResultRecordKeys, c))

_parse_results_csv(c) ==
    Extracted({"events", "riders", "results", "source"},
              Records({"name", "location", "event_date", "event_type"}, c),
              Records({"name", "rank", "win_rate"}, c),
              <<>>,
              Records(ResultRecordKeys, c))

_parse_predictions_csv(c) ==
    Extracted({"predictions", "source"}, <<>>, <<>>,
              Records(PredictionRecordKeys, c), <<>>)

_parse_events_csv(c) ==
    Extracted({"events", "source"},
              Records({"name", "location", "event_date", "event_type", "prize_pool"}, c),
              <<>>, <<>>, <<>>)

_parse_generic_csv(c) ==
    Extracted({"raw_data", "columns", "row_count", "source", "needs_manual_mapping"},
              <<>>, <<>>, <<>>, <<>>)

\* Mutant: every detected score becomes a result record.
_parse_rodeo_dataWithResults(c) ==
    Extracted({"extracted_text", "detected_dates", "detected_scores", "source",
               "needs_review", "results"},
              <<>>, <<>>, <<>>, Records(ResultRecordKeys, c))

_parse_rodeo_data(c) ==
    Extracted({"extracted_text", "detected_dates", "detected_scores", "source",
               "needs_review"},
              <<>>, <<>>, <<>>, <<>>)

\* Mutant: a table that is not a results table is handed on as it is.
process_csvResultsOnly(c) ==
    IF _is_results_csv(c.cols) THEN _parse_results_csv(c)
    ELSE _parse_generic_csv(c)

\* Mutant: the events test is missing.
process_csvWithoutEvents(c) ==
    IF _is_results_csv(c.cols) THEN _parse_results_csv(c)
    ELSE IF _is_predictions_csv(c.cols) THEN _parse_predictions_csv(c)
    ELSE _parse_generic_csv(c)

process_csv(c) ==
    IF _is_results_csv(c.cols) THEN _parse_results_csv(c)
    ELSE IF _is_predictions_csv(c.cols) THEN _parse_predictions_csv(c)
    ELSE IF _is_events_csv(c.cols) THEN _parse_events_csv(c)
    ELSE _parse_generic_csv(c)

\* Every sheet goes through _parse_generic_csv, whose output has none of the
\* four keys: the merged sequences stay empty.
process_excel(c) ==
    Extracted({"events", "riders", "predictions", "results"}, <<>>, <<>>, <<>>, <<>>)

Unsupported ==
    [ok |-> FALSE, keys |-> {}, events |-> <<>>, riders |-> <<>>,
     predictions |-> <<>>, results |-> <<>>]

supported_formats == {".pdf", ".csv", ".txt", ".xlsx", ".jpg", ".png"}

\* The tests of process_file's branches: on the declared type, and on the
\* filename (the image branch has none).
TypeMatch(parser, ftype) ==
    CASE parser = "pdf" -> "pdf" \in TypeWords(ftype)
      [] parser = "csv" -> "csv" \in TypeWords(ftype)
      [] parser = "excel" -> "excel" \in TypeWords(ftype)
      [] parser = "image" -> TypeWords(ftype) \cap {"jpg", "jpeg", "png"} # {}
      [] parser = "text" -> "text" \in TypeWords(ftype)

ExtMatch(parser, ext) ==
    CASE parser = "pdf" -> ext = ".pdf"
      [] parser = "csv" -> ext = ".csv"
      [] parser = "excel" -> ext \in {".xlsx", ".xls"}
      [] parser = "image" -> FALSE
      [] parser = "text" -> ext = ".txt"

\* Mutant: the csv branch comes first.
DispatchOrderCsvFirst == <<"csv", "pdf", "excel", "image", "text">>

\* if ... elif ... elif ...
DispatchOrder == <<"pdf", "csv", "excel", "image", "text">>

\* The branch process_file takes: the first whose test holds.
Dispatch(u) ==
    LET taken == {i \in 1..Len(DispatchOrder) :
                     \/ TypeMatch(DispatchOrder[i], u.ftype)
                     \/ ExtMatch(DispatchOrder[i], u.filename.ext)}
    IN  IF taken = {} THEN "none"
        ELSE DispatchOrder[CHOOSE i \in taken : \A j \in taken : i <= j]

process_file(u) ==
    CASE Dispatch(u) = "pdf" -> _parse_rodeo_data(u.content)
      [] Dispatch(u) = "csv" -> process_csv(u.content)
      [] Dispatch(u) = "excel" -> process_excel(u.content)
      [] Dispatch(u) = "image" -> _parse_rodeo_data(u.content)
      [] Dispatch(u) = "text" -> _parse_rodeo_data(u.content)
      [] OTHER -> Unsupported

----------------------------------------------------------------------------
(* Deduplication engine, triage engine, review queue: module deduplication *)

\* Scores are percentages.
ProcessThreshold == 70
ReviewThreshold == 40
Scores == {20, 50, 90}

\* Scores on both sides of each threshold, and the ends of the range.
BoundaryScores == {0, 39, 40, 69, 70, 100}

ContentFingerprint(c) == <<"sha", c.cols, c.data, c.rows, c.variant>>

Identity(records) == {<<records[i].data, records[i].row>> : i \in 1..Len(records)}

DataFingerprint(pd) ==
    <<"sha", Identity(pd.events), Identity(pd.riders), Identity(pd.results)>>

\* A membership test that registers the fingerprint whatever the answer.
check_duplicate(registry, h) ==
    [result |-> [is_duplicate |-> h \in registry, hash |-> h],
     registry |-> registry \cup {h}]

check_file_duplicate(registry, content) ==
    check_duplicate(registry, ContentFingerprint(content))

check_data_duplicate(registry, processed_data) ==
    check_duplicate(registry, DataFingerprint(processed_data))

\* Mutant: a score on a threshold falls to the action below it.
ActionForAbove(score) ==
    IF score > ProcessThreshold THEN "process"
    ELSE IF score > ReviewThreshold THEN "review"
    ELSE "reject"

ActionFor(score) ==
    IF score >= ProcessThreshold THEN "process"
    ELSE IF score >= ReviewThreshold THEN "review"
    ELSE "reject"

assess_file_relevance(score) ==
    [verdict |-> CASE ActionFor(score) = "process" -> "relevant"
                   [] ActionFor(score) = "review" -> "ambiguous"
                   [] OTHER -> "irrelevant",
     action |-> ActionFor(score), relevance_score |-> score, quality_score |-> -1]

assess_data_quality(score) ==
    [verdict |-> CASE ActionFor(score) = "process" -> "good"
                   [] ActionFor(score) = "review" -> "marginal"
                   [] OTHER -> "poor",
     action |-> ActionFor(score), relevance_score |-> -1, quality_score |-> score]

add_to_review(q, filename, reason, file_hash, assessment) ==
    Append(q, [filename |-> filename, reason |-> reason, file_hash |-> file_hash,
               assessment |-> assessment])

----------------------------------------------------------------------------
(* Ingestion Orchestrator: ingest_historical_data, src/app.py *)

Unknown == <<"unknown">>     \* dedup_result.get("hash", "unknown")
NoId == -2                   \* the response has no review_queue_id, or None
None == "None"               \* x_api_key when the request has no such header
HeaderNone == "Header(None)" \* the parameter's default when the handler is called

\* A response: the dict returned (its keys, the keys whose value is None and
\* the values the claims read), or status "error" for the HTTP 500 of the
\* handler's except clause.
Response(status, keys, nulls, review_queue_id, push_results, action) ==
    [status |-> status, keys |-> keys, nulls |-> nulls,
     review_queue_id |-> review_queue_id, push_results |-> push_results,
     action |-> action]

NoResponse == Response("none", {}, {}, NoId, <<>>, "none")

DuplicateResponse ==
    Response("duplicate",
             {"status", "filename", "file_size", "duplicate_check", "message", "action"},
             {}, NoId, <<>>, "rejected")

RejectedResponse(assessment_key, review_queue_id) ==
    Response("rejected",
             {"status", "filename", "file_size", assessment_key, "message", "action",
              "review_queue_id"},
             {}, review_queue_id, <<>>, "rejected")

ErrorResponse == Response("error", {"detail"}, {}, NoId, <<>>, "none")

\* HTTPException(status_code=401, detail="Unauthorized")
UnauthorizedResponse == Response("unauthorized", {"detail"}, {}, NoId, <<>>, "none")

Assessment(verdict, action, relevance_score, quality_score) ==
    [verdict |-> verdict, action |-> action,
     relevance_score |-> relevance_score, quality_score |-> quality_score]

Unassigned == Assessment("none", "none", -1, -1)

NotChecked == [is_duplicate |-> FALSE, hash |-> Unknown]

\* A request: its arguments, the handler's locals (Unassigned before the
\* handler assigns them), and the trace of what it did.
NewRun(id, u, auto_push, skip_deduplication, skip_triage) ==
    [id |-> id, u |-> u, auto_push |-> auto_push,
     skip_deduplication |-> skip_deduplication, skip_triage |-> skip_triage,
     x_api_key |-> None,
     dedup_result |-> NotChecked,
     triage_result |-> Unassigned,
     processed_data |-> Unsupported,
     data_dedup_result |-> NotChecked,
     quality_result |-> Unassigned,
     push_results |-> <<>>,
     todo |-> <<>>,        \* the records the push loops have still to visit
     stages |-> <<>>,      \* the engines, extractors and queue called, in order
     pushes |-> 0,         \* push_prediction / push_result calls made
     failures |-> 0,       \* push calls that raised
     appended |-> 0,       \* review entries this request added
     entry_at |-> NoId,    \* the queue index of the entry it added
     resubmitted |-> FALSE,    \* its bytes were submitted to the file check before
     data_extracted |-> FALSE, \* its record set equals one extracted before
     data_checked |-> FALSE,   \* its record set equals one data-checked before
     response |-> NoResponse]

Idle == NewRun(0, Upload("", "", "", {}, 0, 0, 0), FALSE, FALSE, FALSE)

Returned(r) == r.response.status # "none"

\* The handler's view: its request r and the process-wide stores.
Ctx(r, files, data, q, h) ==
    [r |-> r, files |-> files, data |-> data, queue |-> q, past |-> h]

Visit(r, stage) == [r EXCEPT !.stages = Append(@, stage)]

\* {**triage_result, **quality_result}
Merged(t, q) ==
    Assessment(q.verdict, q.action,
               IF q.relevance_score # -1 THEN q.relevance_score ELSE t.relevance_score,
               IF q.quality_score # -1 THEN q.quality_score ELSE t.quality_score)

\* History: one more check of fingerprint k that answered "not a duplicate".
Bump(counts, k) ==
    IF k \in DOMAIN counts THEN [counts EXCEPT ![k] = @ + 1]
    ELSE counts @@ (k :> 1)

\* STEP 1: lines 436-451
\* Mutant: the caller's flag is not consulted.
RunsFileDedupAlways(skip_deduplication) == TRUE

RunsFileDedup(skip_deduplication) == ~skip_deduplication

\* Mutant: every request asks an engine that has seen nothing.
CheckFileCallFresh(registry, u) == check_file_duplicate({}, u.content)

\* Mutant: the check answers, and the fingerprint is not registered by the
\* time the next request is checked.
CheckFileCallUnregistered(registry, u) ==
    [result |-> check_file_duplicate(registry, u.content).result,
     registry |-> registry]

CheckFileCall(registry, u) == check_file_duplicate(registry, u.content)

\* Mutant: the duplicate answer is ignored.
FileDuplicateHitNever(dedup_result) == FALSE

FileDuplicateHit(dedup_result) == dedup_result["is_duplicate"]

FileDedupStep(c) ==
    LET r0 == [c.r EXCEPT !.resubmitted = c.r.u.content \in c.past.submitted]
        h1 == IF c.r.skip_deduplication THEN c.past
              ELSE [c.past EXCEPT !.submitted = @ \cup {c.r.u.content}]
    IN  IF ~RunsFileDedup(c.r.skip_deduplication)
        THEN Ctx(r0, c.files, c.data, c.queue, h1)
        ELSE
            LET d == CheckFileCall(c.files, c.r.u)
                r1 == [Visit(r0, "file_dedup") EXCEPT !.dedup_result = d.result]
                h2 == IF d.result.is_duplicate THEN h1
                      ELSE [h1 EXCEPT !.fresh_files = Bump(@, c.r.u.content)]
            IN  IF FileDuplicateHit(d.result)
                THEN Ctx([r1 EXCEPT !.response = DuplicateResponse],
                         d.registry, c.data, c.queue, h2)
                ELSE Ctx(r1, d.registry, c.data, c.queue, h2)

\* STEP 2: lines 453-485
\* Mutant: the caller's flag is not consulted.
RunsTriageAlways(skip_triage) == TRUE

\* `if not skip_triage:`, lines 455 and 515
RunsTriage(skip_triage) == ~skip_triage

\* Mutant: the action is compared with a word the triage engine never answers.
TriageRejectsTypo(triage_result) == triage_result["action"] = "rejected"

\* Mutant: every action but process ends the run.
TriageRejectsReview(triage_result) == triage_result["action"] # "process"

TriageRejects(triage_result) == triage_result["action"] = "reject"

\* Mutant: the rejected file is not written to the review queue.
TriageReviewCallSkipped(q, r) == q

\* Mutant: the newest entry is put at the head of the queue.
TriageReviewCallAtHead(q, r) ==
    <<[filename |-> r.u.filename, reason |-> "File appears irrelevant to rodeo data",
       file_hash |-> r.dedup_result.hash, assessment |-> r.triage_result]>> \o q

\* Mutant: the entry is written without the answer of the file check.
TriageReviewCallUnknown(q, r) ==
    add_to_review(q, r.u.filename, "File appears irrelevant to rodeo data",
                  Unknown, r.triage_result)

TriageReviewCall(q, r) ==
    add_to_review(q, r.u.filename, "File appears irrelevant to rodeo data",
                  r.dedup_result.hash, r.triage_result)

TriageStep(c, score) ==
    IF ~RunsTriage(c.r.skip_triage)
    THEN [c EXCEPT !.r.triage_result = Assessment("relevant", "process", -1, -1)]
    ELSE
        LET t == assess_file_relevance(score)
            r1 == [Visit(c.r, "triage") EXCEPT !.triage_result = t]
        IN  IF TriageRejects(t)
            THEN LET q1 == TriageReviewCall(c.queue, r1)
                 IN  [c EXCEPT !.queue = q1,
                               !.r = [r1 EXCEPT
                                   !.stages = Append(@, "review"),
                                   !.appended = @ + (Len(q1) - Len(c.queue)),
                                   !.entry_at = Len(c.queue),
                                   !.response = RejectedResponse("triage", Len(q1) - 1)]]
            ELSE [c EXCEPT !.r = r1]

\* STEP 3: lines 487-495; an exception of the extractor reaches the handler's
\* except clause (lines 619-621), which answers HTTP 500.
ExtractStep(c) ==
    LET pd == process_file(c.r.u)
        r1 == [Visit(c.r, "extract") EXCEPT
                  !.processed_data = pd,
                  !.data_extracted = pd.ok /\ DataFingerprint(pd) \in c.past.extracted,
                  !.data_checked = pd.ok /\ DataFingerprint(pd) \in c.past.data_checked]
    IN  IF pd.ok
        THEN [c EXCEPT !.r = r1, !.past.extracted = @ \cup {DataFingerprint(pd)}]
        ELSE [c EXCEPT !.r = [r1 EXCEPT !.response = ErrorResponse]]

\* STEP 4: lines 497-511
\* History: everything a record set holds, whatever the order of its records.
RecordSet(pd) ==
    [keys |-> pd.keys, events |-> Identity(pd.events), riders |-> Identity(pd.riders),
     predictions |-> Identity(pd.predictions), results |-> Identity(pd.results)]

RunsDataDedup(skip_deduplication, dedup_result) ==
    ~skip_deduplication /\ ~dedup_result["is_duplicate"]

\* Mutant: the data duplicate answer is ignored.
DataDuplicateHitNever(data_dedup_result) == FALSE

DataDuplicateHit(data_dedup_result) == data_dedup_result["is_duplicate"]

\* Mutant: the engine is asked about the record set in the order extracted.
CheckDataCallInOrder(registry, r) ==
    check_duplicate(registry,
                    <<"sha", r.processed_data.events, r.processed_data.riders,
                      r.processed_data.results>>)

\* check_data_duplicate(processed_data, file.filename)
CheckDataCall(registry, r) == check_data_duplicate(registry, r.processed_data)

DataDedupStep(c) ==
    IF ~RunsDataDedup(c.r.skip_deduplication, c.r.dedup_result) THEN c
    ELSE
        LET d == CheckDataCall(c.data, c.r)
            r1 == [Visit(c.r, "data_dedup") EXCEPT !.data_dedup_result = d.result]
            c1 == [c EXCEPT !.data = d.registry,
                            !.past.records = @ \cup {RecordSet(c.r.processed_data)},
                            !.past.data_checked =
                                @ \cup {DataFingerprint(c.r.processed_data)},
                            !.past.fresh_data =
                                IF d.result.is_duplicate THEN @
                                ELSE Bump(@, DataFingerprint(c.r.processed_data))]
        IN  IF DataDuplicateHit(d.result)
            THEN [c1 EXCEPT !.r = [r1 EXCEPT !.response = DuplicateResponse]]
            ELSE [c1 EXCEPT !.r = r1]

\* STEP 5: lines 513-552
QualityRejects(quality_result) == quality_result["action"] = "reject"

\* Mutant: `and` for `or`.
NeedsReviewBoth(quality_result, triage_result) ==
    quality_result["action"] = "review" /\ triage_result["action"] = "review"

NeedsReview(quality_result, triage_result) ==
    quality_result["action"] = "review" \/ triage_result["action"] = "review"

QualityStep(c, score) ==
    IF ~RunsTriage(c.r.skip_triage)
    THEN [c EXCEPT !.r.quality_result = Assessment("good", "process", -1, -1)]
    ELSE
        LET ql == assess_data_quality(score)
            r1 == [Visit(c.r, "quality") EXCEPT !.quality_result = ql]
        IN  IF QualityRejects(ql)
            THEN LET q1 == add_to_review(c.queue, r1.u.filename, "Poor data quality",
                                         r1.dedup_result.hash, ql)
                 IN  [c EXCEPT !.queue = q1,
                               !.r = [r1 EXCEPT
                                   !.stages = Append(@, "review"),
                                   !.appended = @ + (Len(q1) - Len(c.queue)),
                                   !.entry_at = Len(c.queue),
                                   !.response =
                                       RejectedResponse("quality_assessment",
                                                        Len(q1) - 1)]]
            ELSE IF NeedsReview(ql, r1.triage_result)
            THEN LET q1 == add_to_review(c.queue, r1.u.filename,
                               "Uncertain quality or relevance - needs manual review",
                               r1.dedup_result.hash, Merged(r1.triage_result, ql))
                 IN  [c EXCEPT !.queue = q1,
                               !.r = [r1 EXCEPT
                                   !.stages = Append(@, "review"),
                                   !.appended = @ + (Len(q1) - Len(c.queue)),
                                   !.entry_at = Len(c.queue)]]
            ELSE [c EXCEPT !.r = r1]

\* STEP 6: lines 554-578
\* Mutant: the quality action is not consulted.
ShouldPushAlways(auto_push, quality_result) == auto_push

ShouldPush(auto_push, quality_result) ==
    auto_push /\ quality_result["action"] = "process"

PushItems(type, records) ==
    [i \in 1..Len(records) |-> [type |-> type, rec |-> records[i]]]

\* for pred in processed_data["predictions"] ... for res in processed_data["results"]
PushPlan(pd) ==
    (IF "predictions" \in pd.keys THEN PushItems("prediction", pd.predictions)
     ELSE <<>>)
    \o (IF "results" \in pd.keys THEN PushItems("result", pd.results) ELSE <<>>)

\* push_prediction(**pred), push_result(**res): the call binds the record's
\* keys to the method's keyword parameters, or raises TypeError before any
\* request is made.
Binds(item) ==
    LET params == IF item.type = "prediction" THEN PushPredictionParams
                  ELSE PushResultParams
        required == IF item.type = "prediction" THEN PushPredictionRequired
                    ELSE PushResultRequired
    IN  item.rec.keys \subseteq params /\ required \subseteq item.rec.keys

PushOutcome(type, status) == [type |-> type, status |-> status]

\* Mutant: no try around the push call; the exception reaches the handler's
\* except clause.
OnPushErrorAborts(r) == [r EXCEPT !.response = ErrorResponse]

\* except Exception as e: the failure is recorded and the loop goes on.
OnPushError(r) ==
    [r EXCEPT !.push_results = Append(@, PushOutcome(Head(r.todo).type, "error")),
              !.todo = Tail(@)]

OnPushSuccess(r) ==
    [r EXCEPT !.push_results = Append(@, PushOutcome(Head(r.todo).type, "success")),
              !.todo = Tail(@)]

Raised(r) == [r EXCEPT !.failures = @ + 1]

\* The loops run on until a call is awaited (todo's head is that call) or the
\* records are exhausted.
RECURSIVE PushLoop(_)
PushLoop(r) ==
    IF r.todo = <<>> \/ Returned(r) THEN r
    ELSE LET called == [r EXCEPT !.pushes = @ + 1]
         IN  IF Binds(Head(r.todo)) THEN called
             ELSE PushLoop(OnPushError(Raised(called)))

PushStep(c) ==
    IF ShouldPush(c.r.auto_push, c.r.quality_result)
    THEN [c EXCEPT !.r = PushLoop([Visit(c.r, "push") EXCEPT
                                      !.todo = PushPlan(c.r.processed_data)])]
    ELSE c

Awaiting(r) == r.todo # <<>> /\ ~Returned(r)

\* Lines 580-617
\* Mutant: the review status is spelled as the action is.
FinalStatusReview(quality_result, triage_result, auto_push) ==
    IF quality_result["action"] = "review" \/ triage_result["action"] = "review"
    THEN "review"
    ELSE IF quality_result["action"] = "process" /\ auto_push THEN "success"
    ELSE "processed"

\* Mutant: the push test comes before the review test.
FinalStatusPushFirst(quality_result, triage_result, auto_push) ==
    IF quality_result["action"] = "process" /\ auto_push THEN "success"
    ELSE IF quality_result["action"] = "review" \/ triage_result["action"] = "review"
    THEN "needs_review"
    ELSE "processed"

FinalStatus(quality_result, triage_result, auto_push) ==
    IF quality_result["action"] = "review" \/ triage_result["action"] = "review"
    THEN "needs_review"
    ELSE IF quality_result["action"] = "process" /\ auto_push THEN "success"
    ELSE "processed"

FinalResponse(r, q) ==
    LET final_status == FinalStatus(r.quality_result, r.triage_result, r.auto_push)
    IN  Response(final_status,
                 {"status", "filename", "file_size", "deduplication", "triage",
                  "quality", "processed_data", "auto_push_enabled", "push_results",
                  "action_taken", "review_queue_id"},
                 (IF r.auto_push THEN {} ELSE {"push_results"})
                 \cup (IF final_status = "needs_review" THEN {} ELSE {"review_queue_id"}),
                 IF final_status = "needs_review" THEN Len(q) - 1 ELSE NoId,
                 IF r.auto_push THEN r.push_results ELSE <<>>,
                 r.quality_result["action"])

Finish(c) ==
    IF Awaiting(c.r) \/ Returned(c.r) THEN c
    ELSE [c EXCEPT !.r.response = FinalResponse(c.r, c.queue)]

\* Mutant: a stage runs whether or not an earlier one has returned.
ThenAnyway(c, next) == next

\* A stage runs unless an earlier one has returned.
Then(c, next) == IF Returned(c.r) THEN c ELSE next

ThenTriage(c, score) == Then(c, TriageStep(c, score))

ThenExtract(c) == Then(c, ExtractStep(c))

ThenDataDedup(c) == Then(c, DataDedupStep(c))

ThenQuality(c, score) == Then(c, QualityStep(c, score))

ThenPush(c) == Then(c, PushStep(c))

ThenFinish(c) == Then(c, Finish(c))

\* The handler from its first stage to its first awaited push, or to its end.
Handler(r, files, data, q, h, tscore, qscore) ==
    ThenFinish(ThenPush(ThenQuality(ThenDataDedup(ThenExtract(ThenTriage(
        FileDedupStep(Ctx(r, files, data, q, h)), tscore))), qscore)))

\* Lines 425-427
\* Mutant: the key is compared whether or not a secret is configured.
UnauthorizedAlwaysCompared(GPU_API_KEY, x_api_key) == x_api_key # GPU_API_KEY

Unauthorized(GPU_API_KEY, x_api_key) ==
    GPU_API_KEY # "" /\ x_api_key # GPU_API_KEY

\* ingest_historical_data from its first line.
Gated(GPU_API_KEY, r, files, data, q, h, tscore, qscore) ==
    IF Unauthorized(GPU_API_KEY, r.x_api_key)
    THEN Ctx([r EXCEPT !.response = UnauthorizedResponse], files, data, q, h)
    ELSE Handler(r, files, data, q, h, tscore, qscore)

\* The handler resumed after an awaited push: the rest of the loops, and the
\* end of the handler.
Resume(r, files, data, q, h) == Finish(Ctx(PushLoop(r), files, data, q, h))

----------------------------------------------------------------------------
(* The service *)

Status(r) == r.response.status

Did(r, stage) == \E i \in 1..Len(r.stages) : r.stages[i] = stage

\* fresh_files and fresh_data count, per fingerprint, the checks that answered
\* "not a duplicate".
NoPast ==
    [submitted |-> {}, extracted |-> {}, data_checked |-> {}, records |-> {},
     fresh_files |-> <<>>, fresh_data |-> <<>>]

Totals(events, riders, predictions, results) ==
    [events |-> events, riders |-> riders, predictions |-> predictions,
     results |-> results]

NoOutcome == [status |-> "none", appended |-> 0]

\* No ingest_batch call is in progress.
NoBatch ==
    [state |-> "none", files |-> <<>>, auto_push |-> FALSE, x_api_key |-> None,
     current |-> 0,              \* the request id of the file being ingested
     files_processed |-> 0,      \* len(files)
     submitted |-> <<>>,         \* the filenames of `files` as the caller sent them
     file_results |-> <<>>,      \* results
     totals |-> Totals(0, 0, 0, 0),
     handled |-> 0,              \* the files the handler was called for
     unreadable |-> {},          \* the files whose extraction raised
     reached |-> Totals(0, 0, 0, 0), \* the counts of the files that were extracted
     expected |-> NoOutcome]     \* what the single-file endpoint would answer

NoListing == [status |-> "none", queue_length |-> 0, items |-> <<>>]

NoFile == Upload("", "", "", {}, 0, 0, 0)

NotParsed == [u |-> NoFile, done |-> FALSE, parser |-> "none", out |-> Unsupported]

Stores ==
    /\ seen_files = {}
    /\ seen_data = {}
    /\ queue = <<>>
    /\ inflight = {}
    /\ resp = Idle
    /\ served = 0
    /\ past = NoPast

Init ==
    /\ Stores
    /\ config = ""
    /\ batch = NoBatch
    /\ listing = NoListing
    /\ parse = NotParsed

\* The handler has run from `from` (a suspended request, or none) to its next
\* await or to its end.
Settle(from, c) ==
    /\ seen_files' = c.files
    /\ seen_data' = c.data
    /\ queue' = c.queue
    /\ past' = c.past
    /\ IF Returned(c.r)
       THEN /\ resp' = c.r
            /\ inflight' = inflight \ from
       ELSE /\ resp' = resp
            /\ inflight' = (inflight \ from) \cup {c.r}

\* The scores the triage engine may answer with: none when it is not asked
\* (`if not skip_triage`, lines 456 and 515).
Answers(skip_triage) == IF skip_triage THEN {-1} ELSE Scores

\* POST /ingest-historical-data, no x-api-key header
Ingest ==
    /\ resp = Idle
    /\ served < MaxRequests
    /\ served' = served + 1
    /\ \E u \in Uploads, auto_push \in BOOLEAN, skip_deduplication \in BOOLEAN,
          skip_triage \in BOOLEAN :
          \E tscore \in Answers(skip_triage), qscore \in Answers(skip_triage) :
          Settle({}, Gated(config,
                           NewRun(served + 1, u, auto_push, skip_deduplication,
                                  skip_triage),
                           seen_files, seen_data, queue, past, tscore, qscore))
    /\ UNCHANGED <<config, batch, listing, parse>>

\* An awaited push call returns or raises; the handler runs on.
PushReturns ==
    /\ resp = Idle
    /\ \E r \in inflight :
          \E after \in {OnPushSuccess(r), OnPushError(Raised(r))} :
              Settle({r}, Resume(after, seen_files, seen_data, queue, past))
    /\ UNCHANGED <<served, config, batch, listing, parse>>

\* The response is sent to the caller.
Respond ==
    /\ resp # Idle
    /\ resp.id # batch.current
    /\ resp' = Idle
    /\ UNCHANGED <<seen_files, seen_data, queue, inflight, served, past,
                   config, batch, listing, parse>>

Next == Ingest \/ PushReturns \/ Respond

Spec == Init /\ [][Next]_vars

\* Every awaited push call returns or raises (httpx.AsyncClient(timeout=30.0)
\* raises when the time is up), and the event loop sends every response.
LiveSpec == Spec /\ WF_vars(PushReturns) /\ WF_vars(Respond)

----------------------------------------------------------------------------
(* The API key, ingest_batch and the review-queue listing: src/app.py *)

Keys == {None, "secret", "wrong"}

\* a.csv, and x.bin, which no extractor claims.
ApiUploads ==
    {Upload("a", ".csv", "text/csv", ResultCols, 1, 2, 1),
     Upload("x", ".bin", "application/octet-stream", {}, 3, 1, 1)}

ApiInit ==
    /\ Stores
    /\ config \in {"", "secret"}
    /\ batch = NoBatch
    /\ listing = NoListing
    /\ parse = NotParsed

\* No reply of ingest_batch or of the listing is waiting to be sent.
Quiet == listing = NoListing /\ batch.state \notin {"done", "unauthorized"}

\* POST /ingest-historical-data with an x-api-key header, or none
IngestKeyed ==
    /\ Quiet
    /\ batch.state = "none"
    /\ resp = Idle
    /\ served < MaxRequests
    /\ served' = served + 1
    /\ \E u \in ApiUploads, auto_push \in BOOLEAN, x_api_key \in Keys,
          tscore \in Scores, qscore \in Scores :
          Settle({}, Gated(config,
                           [NewRun(served + 1, u, auto_push, FALSE, FALSE)
                               EXCEPT !.x_api_key = x_api_key],
                           seen_files, seen_data, queue, past, tscore, qscore))
    /\ UNCHANGED <<config, batch, listing, parse>>

\* `if not skip_deduplication` when the argument is a header value
Truthy(value) == value \notin {None, ""}

\* result["processed_data"]: the counts of the final response
Counts(pd) ==
    Totals(Len(pd.events), Len(pd.riders), Len(pd.predictions), Len(pd.results))

Plus(t, c) ==
    Totals(t.events + c.events, t.riders + c.riders,
           t.predictions + c.predictions, t.results + c.results)

FileResult(filename, status, error) ==
    [filename |-> filename, status |-> status, error |-> error]

\* What the handler has settled when it first awaits or returns: the entries
\* added, and the status it ends with.
Outcome(r) ==
    [status |-> IF Returned(r) THEN r.response.status
                ELSE FinalStatus(r.quality_result, r.triage_result, r.auto_push),
     appended |-> r.appended]

\* POST /ingest-batch, lines 643-654: the key check, and the locals.
BatchStart ==
    /\ Quiet
    /\ batch.state = "none"
    /\ resp = Idle
    /\ inflight = {}
    /\ \E n \in 1..(MaxRequests - served) :
          \E files \in [1..n -> ApiUploads], auto_push \in BOOLEAN,
             x_api_key \in Keys :
              batch' = IF Unauthorized(config, x_api_key)
                       THEN [NoBatch EXCEPT !.state = "unauthorized",
                                            !.x_api_key = x_api_key]
                       ELSE [NoBatch EXCEPT !.state = "running", !.files = files,
                                            !.files_processed = Len(files),
                                            !.submitted =
                                                [i \in 1..n |-> files[i].filename],
                                            !.auto_push = auto_push,
                                            !.x_api_key = x_api_key]
    /\ UNCHANGED <<seen_files, seen_data, queue, inflight, resp, served, past,
                   config, listing, parse>>

\* Line 659: ingest_historical_data(file, auto_push, x_api_key).  The third
\* positional parameter of the handler is skip_deduplication; skip_triage and
\* x_api_key take their defaults.
BatchCall(id, file, auto_push, x_api_key) ==
    [NewRun(id, file, auto_push, Truthy(x_api_key), FALSE)
        EXCEPT !.x_api_key = HeaderNone]

\* The same file through the single-file endpoint with the caller's key and
\* auto-push flag, and nothing skipped.
SingleCall(id, file, auto_push, x_api_key) ==
    [NewRun(id, file, auto_push, FALSE, FALSE) EXCEPT !.x_api_key = x_api_key]

\* The loop of lines 656-659 takes the next file and calls the handler.
BatchFile ==
    /\ Quiet
    /\ batch.state = "running"
    /\ resp = Idle
    /\ served' = served + 1
    /\ \E tscore \in Scores, qscore \in Scores :
          LET file == Head(batch.files)
              called == Gated(config,
                              BatchCall(served + 1, file, batch.auto_push,
                                        batch.x_api_key),
                              seen_files, seen_data, queue, past, tscore, qscore)
              alone == Gated(config,
                             SingleCall(served + 1, file, batch.auto_push,
                                        batch.x_api_key),
                             seen_files, seen_data, queue, past, tscore, qscore)
          IN  /\ Settle({}, called)
              /\ batch' = [batch EXCEPT !.state = "waiting",
                                        !.current = served + 1,
                                        !.handled = @ + 1,
                                        !.expected = Outcome(alone.r)]
    /\ UNCHANGED <<config, listing, parse>>

\* Lines 660-679: the handler has returned or raised; the file's result is
\* recorded and its counts are added.  A response without processed_data
\* raises KeyError after the file was recorded as a success.
BatchCollect ==
    /\ batch.state = "waiting"
    /\ resp # Idle
    /\ resp.id = batch.current
    /\ LET filename == resp.u.filename
           raised == Status(resp) \in {"error", "unauthorized"}
           keyed == "processed_data" \in resp.response.keys
           success == FileResult(filename, "success", "")
           rest == Tail(batch.files)
       IN  batch' =
               [batch EXCEPT
                   !.state = IF rest = <<>> THEN "done" ELSE "running",
                   !.files = rest,
                   !.current = 0,
                   !.expected = NoOutcome,
                   !.file_results =
                       IF raised
                       THEN Append(@, FileResult(filename, "error", "HTTPException"))
                       ELSE IF keyed THEN Append(@, success)
                       ELSE @ \o <<success,
                                   FileResult(filename, "error", "'processed_data'")>>,
                   !.totals = IF ~raised /\ keyed
                              THEN Plus(@, Counts(resp.processed_data))
                              ELSE @,
                   !.unreadable =
                       IF Did(resp, "extract") /\ ~resp.processed_data.ok
                       THEN @ \cup {filename}
                       ELSE @,
                   !.reached = IF Did(resp, "extract") /\ resp.processed_data.ok
                               THEN Plus(@, Counts(resp.processed_data))
                               ELSE @]
    /\ resp' = Idle
    /\ UNCHANGED <<seen_files, seen_data, queue, inflight, served, past,
                   config, listing, parse>>

\* The reply of ingest_batch (lines 681-691), or its HTTP 401, is sent.
BatchReturns ==
    /\ batch.state \in {"done", "unauthorized"}
    /\ batch' = NoBatch
    /\ UNCHANGED <<seen_files, seen_data, queue, inflight, resp, served, past,
                   config, listing, parse>>

\* ReviewQueue.get_review_queue
get_review_queue(q) == q

\* GET /review-queue
ListQueue ==
    /\ Quiet
    /\ resp = Idle
    /\ \E x_api_key \in Keys :
          listing' = IF Unauthorized(config, x_api_key)
                     THEN [NoListing EXCEPT !.status = "unauthorized"]
                     ELSE [status |-> "success",
                           queue_length |-> Len(get_review_queue(queue)),
                           items |-> get_review_queue(queue)]
    /\ UNCHANGED <<seen_files, seen_data, queue, inflight, resp, served, past,
                   config, batch, parse>>

ListReturns ==
    /\ listing # NoListing
    /\ listing' = NoListing
    /\ UNCHANGED <<seen_files, seen_data, queue, inflight, resp, served, past,
                   config, batch, parse>>

ApiNext ==
    \/ IngestKeyed
    \/ BatchStart
    \/ BatchFile
    \/ BatchCollect
    \/ BatchReturns
    \/ ListQueue
    \/ ListReturns
    \/ Quiet /\ PushReturns
    \/ Quiet /\ Respond

ApiSpec == ApiInit /\ [][ApiNext]_vars

Runs == inflight \cup (IF resp = Idle THEN {} ELSE {resp})

----------------------------------------------------------------------------
(* One submission to a service that has seen nothing: src/app.py *)

StatsCols == {"rider_name", "wins", "average_score"}

\* Tables of every kind as .csv files, and a document, an image and a text
\* whose lines name scores and dates.
SoloUploads ==
    {Upload("stats", ".csv", "text/csv", StatsCols, 1, 2, 1),
     Upload("mixed", ".csv", "text/csv", {"rider_name", "score", "prediction"}, 2, 2, 1),
     Upload("p", ".csv", "text/csv", PredictionCols, 3, 2, 1),
     Upload("events", ".csv", "text/csv", {"event_name", "location", "date"}, 4, 1, 1),
     Upload("notes", ".csv", "", {"rider_name", "wins"}, 5, 1, 1),
     Upload("report", ".pdf", "application/pdf", {}, 6, 2, 1),
     Upload("scan", ".png", "image/png", {}, 7, 2, 1),
     Upload("memo", ".txt", "text/plain", {}, 8, 2, 1)}

\* POST /ingest-historical-data, the first request the service receives
SoloIngest ==
    /\ resp = Idle
    /\ served = 0
    /\ served' = served + 1
    /\ \E u \in SoloUploads, auto_push \in BOOLEAN, skip_deduplication \in BOOLEAN,
          skip_triage \in BOOLEAN, tscore \in BoundaryScores,
          qscore \in BoundaryScores :
          Settle({}, Gated(config,
                           NewRun(served + 1, u, auto_push, skip_deduplication,
                                  skip_triage),
                           seen_files, seen_data, queue, past, tscore, qscore))
    /\ UNCHANGED <<config, batch, listing, parse>>

\* Requests with tables of predictions: p.csv and q.csv hold different
\* predictions, a.csv holds results.
PredictionUploads ==
    {Upload("p", ".csv", "text/csv", PredictionCols, 2, 2, 1),
     Upload("q", ".csv", "text/csv", PredictionCols, 4, 2, 1),
     Upload("a", ".csv", "text/csv", ResultCols, 1, 2, 1)}

\* POST /ingest-historical-data with one of these files, nothing skipped
IngestPredictions ==
    /\ resp = Idle
    /\ served < MaxRequests
    /\ served' = served + 1
    /\ \E u \in PredictionUploads, auto_push \in BOOLEAN, tscore \in Scores,
          qscore \in Scores :
          Settle({}, Gated(config, NewRun(served + 1, u, auto_push, FALSE, FALSE),
                           seen_files, seen_data, queue, past, tscore, qscore))
    /\ UNCHANGED <<config, batch, listing, parse>>

PredictionsNext == IngestPredictions \/ PushReturns \/ Respond

PredictionsSpec == Init /\ [][PredictionsNext]_vars

SoloNext == SoloIngest \/ PushReturns \/ Respond

SoloSpec == Init /\ [][SoloNext]_vars

----------------------------------------------------------------------------
(* process_file applied to one file: src/data_processor.py *)

Types ==
    {"", "application/octet-stream", "text/csv", "text/plain", "application/pdf",
     "image/png", "image/jpeg", "application/vnd.ms-excel"}

Extensions == {".pdf", ".csv", ".xlsx", ".xls", ".txt", ".jpg", ".png", ".bin"}

Columns == {"event_name", "location", "date", "rider_name", "score", "prediction"}

\* The bytes hold a table with at least one column (pd.read_csv raises on
\* bytes without any).
ParserInit ==
    /\ Stores
    /\ config = ""
    /\ batch = NoBatch
    /\ listing = NoListing
    /\ \E ftype \in Types, ext \in Extensions, cols \in SUBSET Columns \ {{}},
          rows \in 0..MaxRows :
          parse = [NotParsed EXCEPT !.u = Upload("f", ext, ftype, cols, 1, rows, 1)]

\* processor.process_file(file_content, filename, file_type)
Extract ==
    /\ ~parse.done
    /\ parse' = [parse EXCEPT !.done = TRUE,
                              !.parser = Dispatch(parse.u),
                              !.out = process_file(parse.u)]
    /\ UNCHANGED <<seen_files, seen_data, queue, inflight, resp, served, past,
                   config, batch, listing>>

ParserNext == Extract

ParserSpec == ParserInit /\ [][ParserNext]_vars

----------------------------------------------------------------------------
(* Cell values and their coercion: _parse_date, _safe_int, _safe_float,
   src/data_processor.py *)

\* A cell value: a string (its shape says how it is written, y, m, d and n
\* what it names), a missing cell (None, NaN, NaT) or a number.
Cell(kind, shape, y, m, d, n) ==
    [kind |-> kind, shape |-> shape, y |-> y, m |-> m, d |-> d, n |-> n]

\* for fmt in ['%Y-%m-%d', '%m/%d/%Y', '%m-%d-%Y', '%Y/%m/%d']
KnownFormats == <<"%Y-%m-%d", "%m/%d/%Y", "%m-%d-%Y", "%Y/%m/%d">>

DateStrings ==
    {Cell("str", shape, y, m, d, 0) :
        shape \in {"%Y-%m-%d", "%m/%d/%Y", "%m-%d-%Y", "%Y/%m/%d", "%d.%m.%Y"},
        y \in {2023, 2024}, m \in {2, 12, 13}, d \in {29, 31}}

Cells ==
    DateStrings
        \cup {Cell("str", "empty", 0, 0, 0, 0), Cell("str", "words", 0, 0, 0, 0),
              Cell("str", "int", 0, 0, 0, 7), Cell("str", "float", 0, 0, 0, 3),
              Cell("missing", "", 0, 0, 0, 0),
              Cell("int", "", 0, 0, 0, 7), Cell("float", "", 0, 0, 0, 3)}

LeapYear(y) == (y % 4 = 0 /\ y % 100 # 0) \/ y % 400 = 0

DaysIn(y, m) ==
    IF m = 2 THEN (IF LeapYear(y) THEN 29 ELSE 28)
    ELSE IF m \in {4, 6, 9, 11} THEN 30 ELSE 31

\* datetime.strptime(date_value, fmt) returns: the string is written in this
\* format and names a day of the calendar; it raises ValueError otherwise.
Strptime(v, fmt) ==
    v.shape = fmt /\ v.m \in 1..12 /\ v.d \in 1..DaysIn(v.y, v.m)

\* The formats of the list under which strptime returns, in the list's order.
Matching(v, formats) == SelectSeq(formats, LAMBDA fmt : Strptime(v, fmt))

\* What a coercion answers: the value (a date, "now", a number or None), the
\* suffix appended to the ISO text, and whether it raised.
Coerced(value, suffix) == [value |-> value, suffix |-> suffix, raised |-> FALSE]

Now == <<"now">>          \* datetime.now().isoformat()
Null == <<"None">>        \* return None

\* pd.isna(value)
IsNa(v) == v.kind = "missing"

_parse_date(v) ==
    IF IsNa(v) THEN Coerced(Now, "")
    ELSE IF v.kind = "str" /\ Matching(v, KnownFormats) # <<>>
    THEN Coerced(<<v.y, v.m, v.d>>, "Z")
    ELSE Coerced(Now, "Z")

\* float(value) returns for numbers and for strings that write one; what it
\* raises otherwise is caught and None is returned.
_safe_float(v) ==
    IF IsNa(v) THEN Coerced(Null, "")
    ELSE IF v.kind \in {"int", "float"} \/ (v.kind = "str" /\ v.shape \in {"int", "float"})
    THEN Coerced(<<"float", v.n>>, "")
    ELSE Coerced(Null, "")

\* int(float(value))
_safe_int(v) ==
    IF _safe_float(v).value = Null THEN Coerced(Null, "")
    ELSE Coerced(<<"int", v.n>>, "")

CoerceInit ==
    /\ Stores
    /\ config = ""
    /\ batch = NoBatch
    /\ listing = NoListing
    /\ \E v \in Cells : parse = [NotParsed EXCEPT !.u = v]

Coerce(name, result) ==
    /\ ~parse.done
    /\ parse' = [parse EXCEPT !.done = TRUE, !.parser = name, !.out = result]
    /\ UNCHANGED <<seen_files, seen_data, queue, inflight, resp, served, past,
                   config, batch, listing>>

ParseDate == Coerce("_parse_date", _parse_date(parse.u))

SafeInt == Coerce("_safe_int", _safe_int(parse.u))

SafeFloat == Coerce("_safe_float", _safe_float(parse.u))

CoerceNext == ParseDate \/ SafeInt \/ SafeFloat

CoerceSpec == CoerceInit /\ [][CoerceNext]_vars

----------------------------------------------------------------------------
(* Properties *)

Completed == resp # Idle

\* The request that completes in this step was received in this step.
ServedAtOnce == resp = Idle /\ resp' # Idle /\ served' = served + 1

RecordCount(r) == Len(r.processed_data.predictions) + Len(r.processed_data.results)

ErrorCount(outcomes) ==
    Cardinality({i \in 1..Len(outcomes) : outcomes[i].status = "error"})

\* C1: a request whose file-dedup check reports a duplicate never reaches
\* the extractors, and its final status is `duplicate`.
C1_FileDuplicateStops ==
    \A r \in Runs :
        r.dedup_result.is_duplicate => ~Did(r, "extract") /\ Status(r) = "duplicate"

C1_Witness ==
    /\ Completed
    /\ resp.dedup_result.is_duplicate
    /\ Status(resp) = "duplicate"

\* C2: a request whose relevance triage answers action `reject` reaches
\* neither extraction, the data-dedup check, quality assessment nor the
\* push, and its final status is `rejected`.
C2_TriageRejectStops ==
    \A r \in Runs :
        r.triage_result.action = "reject" =>
            /\ \A stage \in {"extract", "data_dedup", "quality", "push"} : ~Did(r, stage)
            /\ r.pushes = 0
            /\ Status(r) = "rejected"

C2_Witness ==
    /\ Completed
    /\ resp.triage_result.action = "reject"
    /\ Status(resp) = "rejected"

\* C3 as claimed: a record set that equals the record set an earlier request
\* extracted never reaches quality assessment and is never pushed, whatever
\* the caller's flags.
C3_Original ==
    \A r \in Runs : r.data_extracted => ~Did(r, "quality") /\ r.pushes = 0

\* C3 as amended: a record set that equals one an earlier request's
\* data-dedup check ran on never reaches quality assessment and is never
\* pushed, and the request ends `duplicate`, when the request does not set
\* skip_deduplication.
C3_DataDuplicateStops ==
    \A r \in Runs :
        r.data_checked /\ ~r.skip_deduplication =>
            /\ ~Did(r, "quality")
            /\ ~Did(r, "push")
            /\ r.pushes = 0
            /\ Status(r) = "duplicate"

C3_Witness ==
    /\ Completed
    /\ resp.data_checked
    /\ ~resp.skip_deduplication
    /\ resp.data_dedup_result.is_duplicate
    /\ Status(resp) = "duplicate"

\* C4: a request that completes without a pipeline-fatal error has a final
\* status among duplicate, rejected, needs_review, processed, success.
C4_TerminalStatus ==
    Completed /\ Status(resp) # "error" =>
        Status(resp) \in {"duplicate", "rejected", "needs_review", "processed", "success"}

C4_Witness == Completed /\ Status(resp) = "needs_review"

C6_DuplicateHasNoEffect ==
    [][ServedAtOnce /\ resp'.resubmitted /\ ~resp'.skip_deduplication =>
            /\ Status(resp') = "duplicate"
            /\ "push_results" \notin resp'.response.keys
            /\ ~Did(resp', "push")
            /\ resp'.pushes = 0
            /\ queue' = queue]_vars

C6_Witness ==
    /\ Completed
    /\ resp.resubmitted
    /\ ~resp.skip_deduplication
    /\ Status(resp) = "duplicate"
    /\ queue # <<>>

\* C7: a request that triage rejects ends `rejected`, and the review queue
\* grows by exactly one entry, which carries the request's filename and a
\* reason that names irrelevance.
C7_TriageRejectIsQueued ==
    [][ServedAtOnce /\ resp'.triage_result.action = "reject" =>
            /\ Status(resp') = "rejected"
            /\ Len(queue') = Len(queue) + 1
            /\ SubSeq(queue', 1, Len(queue)) = queue
            /\ queue'[Len(queue')].filename = resp'.u.filename
            /\ queue'[Len(queue')].reason = "File appears irrelevant to rodeo data"]_vars

C7_Witness ==
    /\ Completed
    /\ resp.triage_result.action = "reject"
    /\ Len(queue) = 2
    /\ queue[2].filename = resp.u.filename
    /\ queue[2].reason = "File appears irrelevant to rodeo data"

\* C8: a request adds exactly one review entry when its final status is
\* rejected or needs_review, and none when it is duplicate, processed or
\* success.
C8_ReviewEntriesPerRun ==
    Completed =>
        /\ Status(resp) \in {"rejected", "needs_review"} => resp.appended = 1
        /\ Status(resp) \in {"duplicate", "processed", "success"} => resp.appended = 0

C8_Witness ==
    /\ Completed
    /\ Status(resp) = "needs_review"
    /\ resp.triage_result.action = "review"
    /\ resp.quality_result.action = "process"
    /\ resp.appended = 1

\* C9: the push step runs exactly when the caller asked for auto-push and the
\* quality action is `process`; it then makes one push call per prediction
\* record and per result record; a request that ends duplicate or rejected
\* makes no push call.
C9_PushExactlyWhenProcess ==
    Completed =>
        /\ Did(resp, "push") <=>
               resp.auto_push /\ resp.quality_result.action = "process"
        /\ Did(resp, "push") => resp.pushes = RecordCount(resp)
        /\ ~Did(resp, "push") => resp.pushes = 0
        /\ Status(resp) \in {"duplicate", "rejected"} =>
               ~Did(resp, "push") /\ resp.pushes = 0

C9_Witness ==
    /\ Completed
    /\ Did(resp, "push")
    /\ resp.pushes = 2
    /\ Status(resp) = "needs_review"

\* C10: when the push step runs, every push call that raises is recorded as
\* one outcome with status `error`, there is one outcome per prediction and
\* result record, and the final status is the one the request has when no
\* push raises.
C10_PushFailuresAreRecorded ==
    Completed /\ Did(resp, "push") =>
        /\ Len(resp.response.push_results) = RecordCount(resp)
        /\ ErrorCount(resp.response.push_results) = resp.failures
        /\ Status(resp) = IF resp.triage_result.action = "review" THEN "needs_review"
                          ELSE "success"

C10_Witness ==
    /\ Completed
    /\ Did(resp, "push")
    /\ resp.response.push_results =
           <<PushOutcome("result", "error"), PushOutcome("result", "success")>>
    /\ Status(resp) = "success"

\* C11: the final status follows from the stage verdicts and the auto-push
\* flag with precedence duplicate > rejected > needs_review > success >
\* processed: duplicate when a dedup check reports a duplicate, else rejected
\* when triage or quality answers `reject`, else needs_review when triage or
\* quality answers `review`, else success when a push was attempted and the
\* quality action is `process`, else processed.
C11_StatusPrecedence ==
    Completed /\ Status(resp) # "error" =>
        LET duplicate == resp.dedup_result.is_duplicate
                             \/ resp.data_dedup_result.is_duplicate
            rejected == resp.triage_result.action = "reject"
                            \/ resp.quality_result.action = "reject"
            review == resp.triage_result.action = "review"
                          \/ resp.quality_result.action = "review"
            pushed == Did(resp, "push") /\ resp.quality_result.action = "process"
        IN  Status(resp) = IF duplicate THEN "duplicate"
                           ELSE IF rejected THEN "rejected"
                           ELSE IF review THEN "needs_review"
                           ELSE IF pushed THEN "success"
                           ELSE "processed"

\* A push was attempted and the status is needs_review all the same.
C11_Witness ==
    /\ Completed
    /\ Status(resp) = "needs_review"
    /\ resp.triage_result.action = "review"
    /\ resp.quality_result.action = "process"
    /\ Did(resp, "push")
    /\ resp.pushes > 0

\* C12: among the submissions of the same bytes with skip_deduplication
\* unset, whatever their interleaving, exactly one file-dedup check answers
\* "not a duplicate" and every other one answers "duplicate"; the same holds
\* of the data-dedup checks of one record set.
C12_OneFirstSubmission ==
    /\ DOMAIN past.fresh_files = past.submitted
    /\ \A content \in past.submitted : past.fresh_files[content] = 1
    /\ DOMAIN past.fresh_data = past.data_checked
    /\ \A fingerprint \in past.data_checked : past.fresh_data[fingerprint] = 1
    /\ \A r1 \in Runs : \A r2 \in Runs :
           /\ r1.id # r2.id
           /\ r1.u.content = r2.u.content
           /\ Did(r1, "file_dedup")
           /\ Did(r2, "file_dedup")
           => r1.dedup_result.is_duplicate \/ r2.dedup_result.is_duplicate

\* The second submission arrives while the first is suspended in a push.
C12_Witness ==
    /\ Completed
    /\ resp.dedup_result.is_duplicate
    /\ \E r \in inflight :
           /\ r.u.content = resp.u.content
           /\ Did(r, "file_dedup")
           /\ ~r.dedup_result.is_duplicate
    /\ past.fresh_files[resp.u.content] = 1

\* The request received in this step.
Received ==
    {r \in inflight' \cup {resp'} : served' = served + 1 /\ r.id = served'}

\* C13: when an ingest_batch call ends, every file whose extraction raised
\* has an entry of file_results with status `error` and a non-empty message,
\* the handler was called for every file, and the totals are the sums of the
\* counts of the files that were extracted.
C13_BatchIsolatesErrors ==
    batch.state = "done" =>
        /\ \A filename \in batch.unreadable :
               \E i \in 1..Len(batch.file_results) :
                   /\ batch.file_results[i].filename = filename
                   /\ batch.file_results[i].status = "error"
                   /\ batch.file_results[i].error # ""
        /\ batch.handled = batch.files_processed
        /\ batch.totals = batch.reached

\* C14: the handler called for a file of a batch settles what the
\* single-file endpoint settles for that file with the caller's key and
\* auto-push flag and nothing skipped, in the same registries and queue.
C14_BatchEqualsSingle ==
    \A r \in Runs :
        batch.state = "waiting" /\ r.id = batch.current => Outcome(r) = batch.expected

\* C15: with a secret configured, a request whose key differs is answered
\* `unauthorized` and no stage runs: no fingerprint is registered, no review
\* entry is added, nothing is extracted or pushed; with no secret configured
\* no request is answered `unauthorized` and every ingestion enters the
\* pipeline.
C15_KeyCheckedFirst ==
    [][/\ \A r \in Received :
              /\ config # "" /\ r.x_api_key # config => Status(r) = "unauthorized"
              /\ Status(r) = "unauthorized" =>
                     /\ config # "" /\ r.x_api_key # config
                     /\ r.stages = <<>>
                     /\ r.pushes = 0
                     /\ r.appended = 0
                     /\ ~r.processed_data.ok
                     /\ UNCHANGED <<seen_files, seen_data, queue, past>>
              /\ config = "" => r.stages # <<>>
       /\ batch.state = "none" /\ batch'.state # "none" =>
              /\ batch'.state = "unauthorized" <=>
                     config # "" /\ batch'.x_api_key # config
              /\ UNCHANGED <<seen_files, seen_data, queue, past, inflight, served>>
       /\ listing = NoListing /\ listing' # NoListing =>
              /\ listing'.status = "unauthorized" => config # ""
              /\ UNCHANGED <<seen_files, seen_data, queue, past>>]_vars

\* A request with a wrong key, after a request that registered a fingerprint
\* and added a review entry.
C15_Witness ==
    /\ config = "secret"
    /\ Completed
    /\ resp.x_api_key = "wrong"
    /\ Status(resp) = "unauthorized"
    /\ seen_files # {}
    /\ queue # <<>>

C17_ReviewIdIsOwnEntry ==
    Completed /\ Status(resp) \in {"rejected", "needs_review"} =>
        /\ resp.response.review_queue_id = resp.entry_at
        /\ queue[resp.response.review_queue_id + 1].filename = resp.u.filename

Parsers == {"pdf", "csv", "excel", "image", "text"}

TypeParsers(ftype) == {parser \in Parsers : TypeMatch(parser, ftype)}

ExtParsers(ext) == {parser \in Parsers : ExtMatch(parser, ext)}

\* C18: process_file raises "unsupported" exactly when neither the declared
\* type nor the filename extension is one a parser takes; every file whose
\* extension is .pdf, .csv, .xlsx, .txt, .jpg or .png is handed to a parser
\* whatever its declared type.
C18_SupportedExtensionsParse ==
    parse.done =>
        /\ ~parse.out.ok <=>
               /\ TypeParsers(parse.u.ftype) = {}
               /\ parse.u.filename.ext \notin supported_formats \cup {".xls"}
        /\ parse.u.filename.ext \in supported_formats => parse.out.ok

\* C19 as claimed: when the declared type matches one parser and the
\* extension another, the parser of the declared type is used.
C19_Original ==
    parse.done =>
        \A byType \in TypeParsers(parse.u.ftype) :
            /\ TypeParsers(parse.u.ftype) = {byType}
            /\ ExtParsers(parse.u.filename.ext) # {}
            /\ byType \notin ExtParsers(parse.u.filename.ext)
            => parse.parser = byType

Rank(parser) ==
    CASE parser = "pdf" -> 1
      [] parser = "csv" -> 2
      [] parser = "excel" -> 3
      [] parser = "image" -> 4
      [] parser = "text" -> 5

\* C19 as amended: the parsers are tried in the order pdf, csv, excel, image,
\* text, each on the declared type or the extension; of the parsers that the
\* type or the extension matches, the first in that order is used, so the
\* declared type decides only when its parser comes first.
C19_FirstParserWins ==
    parse.done =>
        LET matching == TypeParsers(parse.u.ftype) \cup ExtParsers(parse.u.filename.ext)
        IN  IF matching = {} THEN parse.parser = "none"
            ELSE /\ parse.parser \in matching
                 /\ \A other \in matching : Rank(parse.parser) <= Rank(other)

\* The declared type is a table's, the extension a document's: the document
\* parser is used.
C19_Witness ==
    /\ parse.done
    /\ parse.u.ftype = "text/csv"
    /\ parse.u.filename.ext = ".pdf"
    /\ parse.parser = "pdf"

\* C20: a table whose columns that match an indicator word are among
\* event_name, location and date is parsed as events: one event per row, no
\* prediction and no result records.
C20_EventTable ==
    LET matching == {col \in parse.u.content.cols : ColWords(col) # {}}
    IN  /\ parse.done
        /\ parse.parser = "csv"
        /\ matching # {}
        /\ matching \subseteq {"event_name", "location", "date"}
        => /\ parse.out.ok
           /\ parse.out.keys = {"events", "source"}
           /\ Len(parse.out.events) = parse.u.content.rows
           /\ parse.out.predictions = <<>>
           /\ parse.out.results = <<>>

C20_Witness ==
    /\ parse.done
    /\ parse.parser = "csv"
    /\ parse.u.content.cols = {"event_name", "location", "date", "rider_name"}
    /\ Len(parse.out.events) = 2
    /\ parse.out.predictions = <<>>
    /\ parse.out.results = <<>>

\* C21: a table without a prediction-indicator column, submitted with no
\* dedup history, whose relevance and quality assessments (when they run)
\* both answer `process`, ends `processed` or `success`, and the
\* predictions_count of its response is 0.
C21_NoPredictionColumns ==
    /\ Completed
    /\ Dispatch(resp.u) = "csv"
    /\ ~_is_predictions_csv(resp.u.content.cols)
    /\ ~resp.resubmitted
    /\ ~resp.data_checked
    /\ resp.triage_result.action = "process"
    /\ resp.quality_result.action = "process"
    => /\ Status(resp) \in {"processed", "success"}
       /\ "processed_data" \in resp.response.keys
       /\ Counts(resp.processed_data).predictions = 0

\* The table of riders' statistics, pushed.
C21_Witness ==
    /\ Completed
    /\ resp.u.content.cols = StatsCols
    /\ ~resp.skip_triage
    /\ Status(resp) = "success"
    /\ Counts(resp.processed_data).results = 2
    /\ Counts(resp.processed_data).predictions = 0

\* The identity tuples of a record set: what its events, riders and results
\* say, whatever their order.
Identities(pd) == <<Identity(pd.events), Identity(pd.riders), Identity(pd.results)>>

\* C22: the data-dedup check answers "duplicate" for every record set whose
\* event, rider and result identity tuples equal those of a record set
\* checked before, whatever the filenames and the order of the records.
C22_SameRecordsAreDuplicate ==
    /\ \A r \in Runs :
           Did(r, "data_dedup") /\ r.data_checked => r.data_dedup_result.is_duplicate
    /\ \A r1 \in Runs : \A r2 \in Runs :
           /\ r1.id # r2.id
           /\ Did(r1, "data_dedup")
           /\ Did(r2, "data_dedup")
           /\ Identities(r1.processed_data) = Identities(r2.processed_data)
           => \/ r1.data_dedup_result.is_duplicate
              \/ r2.data_dedup_result.is_duplicate

\* The same table under another filename, its rows in another order, while
\* the first submission is suspended in a push.
C22_Witness ==
    /\ Completed
    /\ Did(resp, "data_dedup")
    /\ resp.data_dedup_result.is_duplicate
    /\ \E r \in inflight :
           /\ Did(r, "data_dedup")
           /\ r.u.filename # resp.u.filename
           /\ r.processed_data.results # resp.processed_data.results
           /\ Identities(r.processed_data) = Identities(resp.processed_data)

\* The assessments the triage engine has answered in run r: each carries the
\* one score it was computed from.
Assessments(r) ==
    {a \in {r.triage_result, r.quality_result} :
        (a.relevance_score = -1) # (a.quality_score = -1)}

ScoreOf(a) == IF a.quality_score # -1 THEN a.quality_score ELSE a.relevance_score

\* C23: the action of every assessment follows from its score alone (in
\* percent): 70 and above process, 40 to below 70 review, below 40 reject;
\* every score in the range has exactly one of the three actions.
C23_ActionByScore ==
    \A r \in Runs : \A a \in Assessments(r) :
        /\ ScoreOf(a) \in 0..100
        /\ a.action \in {"process", "review", "reject"}
        /\ a.action = "process" <=> ScoreOf(a) >= 70
        /\ a.action = "review" <=> (40 <= ScoreOf(a) /\ ScoreOf(a) < 70)
        /\ a.action = "reject" <=> ScoreOf(a) < 40

\* Both thresholds are met exactly: relevance 40 is reviewed, quality 70 is
\* processed.
C23_Witness ==
    /\ Completed
    /\ resp.triage_result.relevance_score = 40
    /\ resp.triage_result.action = "review"
    /\ resp.quality_result.quality_score = 70
    /\ resp.quality_result.action = "process"
    /\ Status(resp) = "needs_review"

\* The pipeline's stages in the order of the handler's text.
StageOrder ==
    <<"file_dedup", "triage", "extract", "data_dedup", "quality", "review", "push">>

StageRank(stage) == CHOOSE i \in DOMAIN StageOrder : StageOrder[i] = stage

\* Stage i of run r ends the run: a duplicate answer, a reject action or an
\* extractor's exception.
ShortCircuits(r, i) ==
    \/ r.stages[i] = "file_dedup" /\ r.dedup_result.is_duplicate
    \/ r.stages[i] = "triage" /\ r.triage_result.action = "reject"
    \/ r.stages[i] = "extract" /\ ~r.processed_data.ok
    \/ r.stages[i] = "data_dedup" /\ r.data_dedup_result.is_duplicate
    \/ r.stages[i] = "quality" /\ r.quality_result.action = "reject"

\* C25: the stages of a run are taken in the fixed order file-dedup, triage,
\* extraction, data-dedup, quality, review-queue write, push: none before an
\* earlier one (so none twice), and none after a stage that ends the run,
\* but for the review entry a rejection writes.
C25_StagesInOrder ==
    \A r \in Runs :
        /\ \A i \in DOMAIN r.stages : \E k \in DOMAIN StageOrder : r.stages[i] = StageOrder[k]
        /\ \A i \in DOMAIN r.stages : \A j \in DOMAIN r.stages :
               i < j => StageRank(r.stages[i]) < StageRank(r.stages[j])
        /\ \A i \in DOMAIN r.stages :
               ShortCircuits(r, i) =>
                   \/ i = Len(r.stages)
                   \/ /\ i + 1 = Len(r.stages)
                      /\ r.stages[i] \in {"triage", "quality"}
                      /\ r.stages[i + 1] = "review"
        /\ r \in inflight => r.stages[Len(r.stages)] = "push"

\* A run through all seven stages, and one that ended at its first.
C25_Witness ==
    /\ Completed
    /\ resp.stages = <<"file_dedup">>
    /\ Status(resp) = "duplicate"
    /\ \E r \in inflight : r.stages = StageOrder

\* C26: a triage answer with action review does not end the run: the
\* extractor is called, then the data-dedup check (unless deduplication is
\* skipped) and the quality assessment; unless one of these ends the run as
\* fatal, duplicate or rejected, the run writes exactly one review entry and
\* its final status is needs_review.
C26_ReviewIsNoted ==
    \A r \in Runs :
        r.triage_result.action = "review" =>
            /\ Did(r, "extract")
            /\ r.processed_data.ok =>
                   /\ Did(r, "data_dedup") <=> ~r.skip_deduplication
                   /\ ~r.data_dedup_result.is_duplicate =>
                          /\ Did(r, "quality")
                          /\ r.quality_result.action # "reject" =>
                                 /\ r.appended = 1
                                 /\ r.entry_at + 1 \in DOMAIN queue
                                 /\ queue[r.entry_at + 1].filename = r.u.filename
                                 /\ r \notin inflight => Status(r) = "needs_review"

\* A reviewed file went through every stage, its records were pushed, and it
\* ended needs_review.
C26_Witness ==
    /\ Completed
    /\ resp.triage_result.action = "review"
    /\ resp.stages = StageOrder
    /\ resp.pushes = 2
    /\ resp.appended = 1
    /\ Status(resp) = "needs_review"

\* The parser that built the output, named by the keys only it returns.
ParsedAs(out) ==
    CASE "needs_manual_mapping" \in out.keys -> "generic"
      [] "riders" \in out.keys -> "results"
      [] "predictions" \in out.keys -> "predictions"
      [] "events" \in out.keys -> "events"
      [] OTHER -> "other"

\* C27: a table is classified by the first of the results, prediction and
\* event vocabularies that one of its column names matches, and it is
\* returned as raw records with needs_manual_mapping exactly when no column
\* matches any of the three.
C27_ClassificationOrder ==
    LET cols == parse.u.content.cols
    IN  parse.done /\ parse.parser = "csv" =>
            /\ parse.out.ok
            /\ _is_results_csv(cols) => ParsedAs(parse.out) = "results"
            /\ ~_is_results_csv(cols) /\ _is_predictions_csv(cols) =>
                   ParsedAs(parse.out) = "predictions"
            /\ ~_is_results_csv(cols) /\ ~_is_predictions_csv(cols)
                   /\ _is_events_csv(cols) => ParsedAs(parse.out) = "events"
            /\ ParsedAs(parse.out) = "generic" <=> \A col \in cols : ColWords(col) = {}
            /\ ParsedAs(parse.out) # "other"

\* A table with a prediction column and an event column is a predictions
\* table.
C27_Witness ==
    /\ parse.done
    /\ parse.parser = "csv"
    /\ parse.u.content.cols = {"prediction", "event_name", "rider_name"}
    /\ ParsedAs(parse.out) = "predictions"
    /\ Len(parse.out.predictions) = 2

\* C28: the output of a workbook is the concatenation, in sheet order, of
\* what each sheet yields when parsed as a table; the workbook here has one
\* sheet, so its sequences are those of the sheet's table (a sheet with a
\* results column yields one result record per row).
C28_SheetsParsedAsTables ==
    parse.done /\ parse.parser = "excel" =>
        /\ parse.out.ok
        /\ parse.out.events = process_csv(parse.u.content).events
        /\ parse.out.riders = process_csv(parse.u.content).riders
        /\ parse.out.predictions = process_csv(parse.u.content).predictions
        /\ parse.out.results = process_csv(parse.u.content).results

\* C29: a request with skip_deduplication set calls neither dedup check,
\* leaves the registry of content fingerprints and the registry of data
\* fingerprints as they were, and never ends duplicate.
C29_SkipLeavesRegistries ==
    [][/\ \A r \in Runs' :
              r.skip_deduplication =>
                  /\ ~Did(r, "file_dedup")
                  /\ ~Did(r, "data_dedup")
                  /\ Status(r) # "duplicate"
                  /\ r.id = served' /\ served' = served + 1 =>
                         seen_files' = seen_files /\ seen_data' = seen_data
       /\ served' = served => seen_files' = seen_files /\ seen_data' = seen_data]_vars

\* Bytes the service has registered are submitted again with
\* skip_deduplication set, and are processed.
C29_Witness ==
    /\ Completed
    /\ resp.skip_deduplication
    /\ resp.resubmitted
    /\ ContentFingerprint(resp.u.content) \in seen_files
    /\ DataFingerprint(resp.processed_data) \in seen_data
    /\ Status(resp) \in {"processed", "success"}

\* C30: a review entry's file_hash is the content fingerprint the file-dedup
\* check computed for the request that wrote it, and is "unknown" exactly when
\* that request ran with skip_deduplication set.
C30_EntryCarriesFingerprint ==
    /\ \A r \in Runs :
           r.appended = 1 =>
               /\ r.entry_at + 1 \in DOMAIN queue
               /\ queue[r.entry_at + 1].filename = r.u.filename
               /\ ~r.skip_deduplication =>
                      /\ Did(r, "file_dedup")
                      /\ queue[r.entry_at + 1].file_hash = r.dedup_result.hash
                      /\ queue[r.entry_at + 1].file_hash = ContentFingerprint(r.u.content)
               /\ queue[r.entry_at + 1].file_hash = Unknown <=> r.skip_deduplication
    /\ \A i \in DOMAIN queue :
           \E u \in Uploads :
               /\ u.filename = queue[i].filename
               /\ queue[i].file_hash \in {Unknown, ContentFingerprint(u.content)}

\* Two entries: the first of a request that skipped deduplication, the second
\* of a file that triage rejected after the file check.
C30_Witness ==
    /\ Completed
    /\ Len(queue) = 2
    /\ queue[1].file_hash = Unknown
    /\ ~resp.skip_deduplication
    /\ resp.triage_result.action = "reject"
    /\ resp.entry_at = 1
    /\ queue[2].file_hash = ContentFingerprint(resp.u.content)

\* C31: a request with skip_triage set calls neither the relevance nor the
\* quality assessment and writes no review entry; when it ends with a status,
\* the status is duplicate, success (auto_push set) or processed (auto_push
\* unset), never rejected or needs_review.
C31_SkipTriage ==
    \A r \in Runs :
        r.skip_triage =>
            /\ ~Did(r, "triage")
            /\ ~Did(r, "quality")
            /\ ~Did(r, "review")
            /\ r.appended = 0
            /\ r \notin inflight /\ Status(r) # "error" =>
                   /\ Status(r) \in {"duplicate", "success", "processed"}
                   /\ Status(r) = "success" => r.auto_push
                   /\ Status(r) = "processed" => ~r.auto_push

\* The second request skipped triage, its two records were handed to the push
\* client, it ended success and the queue is still empty.
C31_Witness ==
    /\ Completed
    /\ resp.skip_triage
    /\ Status(resp) = "success"
    /\ resp.pushes = 2
    /\ queue = <<>>
    /\ served = 2

\* C32: a request whose extractor raises is answered with the error, and in
\* serving it the service writes no review entry, registers no data
\* fingerprint and calls the push client for no record.
C32_FatalExtraction ==
    [][/\ ServedAtOnce /\ Did(resp', "extract") /\ ~resp'.processed_data.ok =>
              /\ Status(resp') = "error"
              /\ resp'.response = ErrorResponse
              /\ queue' = queue
              /\ seen_data' = seen_data
              /\ resp'.appended = 0
              /\ resp'.pushes = 0
              /\ resp'.push_results = <<>>
              /\ ~Did(resp', "data_dedup")
              /\ ~Did(resp', "quality")
              /\ ~Did(resp', "push")
       /\ \A r \in inflight' : r.processed_data.ok]_vars

\* An unsupported file that triage marked for review: the error is the
\* answer, its bytes are registered, the queue is as it was.
C32_Witness ==
    /\ Completed
    /\ Status(resp) = "error"
    /\ resp.stages = <<"file_dedup", "triage", "extract">>
    /\ resp.triage_result.action = "review"
    /\ resp.auto_push
    /\ ContentFingerprint(resp.u.content) \in seen_files
    /\ queue = <<>>

\* C33: when an ingest_batch call ends, file_results holds exactly one entry
\* per submitted file, in the order of the files, whatever the file's
\* outcome: the i-th entry is the i-th file's, so no file has both a success
\* entry and an error entry.
C33_OneResultPerFile ==
    batch.state = "done" =>
        /\ Len(batch.file_results) = Len(batch.submitted)
        /\ \A i \in DOMAIN batch.file_results :
               /\ i \in DOMAIN batch.submitted
               /\ batch.file_results[i].filename = batch.submitted[i]
               /\ batch.file_results[i].status \in {"success", "error"}

\* C34: the data-dedup check answers "duplicate" only for a record set that a
\* submission checked before also held: a request whose extracted records
\* differ from those of every earlier request (in their predictions, say) is
\* not answered duplicate by the data check.
C34_DuplicateOnlyIfSameData ==
    [][\A r \in Runs' :
           /\ r.id = served'
           /\ served' = served + 1
           /\ Did(r, "data_dedup")
           /\ r.data_dedup_result.is_duplicate
           => RecordSet(r.processed_data) \in past.records]_vars

\* The run with this id after the step.
RunOfNext(id) == CHOOSE r \in Runs' : r.id = id

\* C35: every request that is suspended in a push call is eventually
\* answered, given that every push call returns, raises or times out; a call
\* that raises (a timeout is an exception of the client) becomes one error
\* outcome of its record, and the records after it are still handed to the
\* push client.
C35_RunsEnd ==
    /\ \A id \in 1..MaxRequests :
           (\E r \in inflight : r.id = id) ~> (resp # Idle /\ resp.id = id)
    /\ [][\A r \in inflight :
              RunOfNext(r.id).failures = r.failures + 1 =>
                  /\ RunOfNext(r.id).push_results =
                         Append(r.push_results,
                                PushOutcome(Head(r.todo).type, "error"))
                  /\ RunOfNext(r.id).pushes = r.pushes + Len(Tail(r.todo))
                         \/ RunOfNext(r.id) \in inflight'
                  /\ Status(RunOfNext(r.id)) # "error"]_vars

\* Both push calls of a request ran out of time: two error outcomes, and the
\* request is answered.
C35_Witness ==
    /\ Completed
    /\ Status(resp) = "success"
    /\ resp.pushes = 2
    /\ resp.failures = 2
    /\ resp.response.push_results =
           <<PushOutcome("result", "error"), PushOutcome("result", "error")>>

\* C36: what the document, image and text extractors return carries
\* needs_review and holds no event, rider, prediction or result record, so a
\* request with such a file makes no push call.
C36_TextNeedsReview ==
    \A r \in Runs :
        Did(r, "extract") /\ Dispatch(r.u) \in {"pdf", "image", "text"} =>
            /\ r.processed_data.ok
            /\ "needs_review" \in r.processed_data.keys
            /\ r.processed_data.keys \cap {"events", "riders", "predictions", "results"} = {}
            /\ r.processed_data.events = <<>>
            /\ r.processed_data.riders = <<>>
            /\ r.processed_data.predictions = <<>>
            /\ r.processed_data.results = <<>>
            /\ r.pushes = 0
            /\ r.push_results = <<>>
            /\ r \notin inflight

\* A text file went through with auto_push set and both assessments
\* answering process: it ends success, and nothing was pushed.
C36_Witness ==
    /\ Completed
    /\ Dispatch(resp.u) = "text"
    /\ resp.auto_push
    /\ Did(resp, "push")
    /\ Status(resp) = "success"
    /\ resp.pushes = 0
    /\ "needs_review" \in resp.processed_data.keys

\* C37: no coercion raises, and for every cell value (a string in a known
\* format, a string in none, the empty string, a missing cell, a number) the
\* date parser answers an ISO timestamp that ends in Z: the date the string
\* names when a known format matches, the current time otherwise.
C37_DateEndsInZ ==
    parse.done =>
        /\ ~parse.out.raised
        /\ parse.parser = "_parse_date" =>
               /\ parse.out.suffix = "Z"
               /\ parse.out.value =
                      IF \E i \in DOMAIN KnownFormats : Strptime(parse.u, KnownFormats[i])
                      THEN <<parse.u.y, parse.u.m, parse.u.d>>
                      ELSE Now

====
